---- MODULE Spec2Model ----
(***************************************************************************)
(* notionmd-cli: the sync pipeline of main.go (validate, title split,      *)
(* dry run, content-hash gate, clear, append) against a remote page, and   *)
(* the pure block-list functions it is built from.                         *)
(***************************************************************************)
EXTENDS Integers, Sequences, FiniteSets, TLC

(* ------------------------------ bounds --------------------------------- *)
\* longest converted document (top-level blocks) of a run
MaxDocLen == 2
\* most children the page holds before the first run
MaxOld == 2
\* blocks the remote returns per listing page (the service's page size)
PageSize == 1
\* consecutive runs of the command on the same page
MaxRuns == 2
\* longest block list given to a pure function
MaxListLen == 3
\* most keys of a multi-page rewrite mapping
MaxKeys == 2
\* most pieces of a text searched for image references
MaxTextLen == 3

(* ------------------------------ blocks --------------------------------- *)
\* a nil *string (CodeBlock.Language == nil)
NilLang == "<nil>"

\* notion.Block: the dynamic type (kind, ptr), the rich-text runs' plain
\* texts, the code language, the children
NoImage == [type |-> "", url |-> "", fileUploadID |-> ""]
Blk(kind, ptr, richText, lang, children) ==
  [kind |-> kind, ptr |-> ptr, richText |-> richText, lang |-> lang,
   children |-> children, image |-> NoImage]

\* a nil notion.Block interface value
NilBlock == Blk("nil", FALSE, <<>>, NilLang, <<>>)

Heading1(rt) == Blk("Heading1Block", FALSE, rt, NilLang, <<>>)
Heading2(rt) == Blk("Heading2Block", FALSE, rt, NilLang, <<>>)
Paragraph(rt) == Blk("ParagraphBlock", TRUE, rt, NilLang, <<>>)
Bulleted(rt, ch) == Blk("BulletedListItemBlock", FALSE, rt, NilLang, ch)
Numbered(rt, ch) == Blk("NumberedListItemBlock", FALSE, rt, NilLang, ch)
Code(ptr, lang) == Blk("CodeBlock", ptr, <<"x">>, lang, <<>>)
Quote(ch) == Blk("QuoteBlock", FALSE, <<"q">>, NilLang, ch)

(* ------------------------- pure functions ------------------------------ *)
langMap ==
  [sh |-> "shell", bash |-> "bash", zsh |-> "shell", js |-> "javascript",
   ts |-> "typescript", py |-> "python", rb |-> "ruby", cs |-> "c#",
   cpp |-> "c++", yml |-> "yaml", text |-> "plain text", txt |-> "plain text"]

\* variant: the language is passed through as it is
mapLanguageUnmapped(lang) == lang

mapLanguageToNotionCompatible(lang) ==
  IF lang \in DOMAIN langMap THEN langMap[lang] ELSE lang

processCodeBlock(codeBlock) ==
  IF codeBlock.lang = NilLang
  THEN [codeBlock EXCEPT !.lang = "plain text"]
  ELSE [codeBlock EXCEPT !.lang = mapLanguageToNotionCompatible(codeBlock.lang)]

\* len(b.RichText) == 0 || (len(b.RichText) == 1 && b.RichText[0].PlainText == "")
EmptyListText(b) ==
  Len(b.richText) = 0 \/ (Len(b.richText) = 1 /\ b.richText[1] = "")

RECURSIVE validateContentBlocks(_)
validateContentBlocks(blocks) ==
  IF blocks = <<>> THEN <<>>
  ELSE
    LET raw == blocks[1]
        \* a *notion.CodeBlock is converted to a notion.CodeBlock value
        block == IF raw.kind = "CodeBlock" /\ raw.ptr
                 THEN [raw EXCEPT !.ptr = FALSE] ELSE raw
        rest == validateContentBlocks(Tail(blocks))
    IN  IF block.kind \in {"BulletedListItemBlock", "NumberedListItemBlock"}
           /\ ~block.ptr
        THEN IF EmptyListText(block) THEN rest
             ELSE IF Len(block.children) > 0
                  THEN <<[block EXCEPT
                            !.children = validateContentBlocks(block.children)]>>
                       \o rest
                  ELSE <<block>> \o rest
        ELSE IF block.kind = "CodeBlock"
             THEN <<processCodeBlock(block)>> \o rest
             ELSE <<block>> \o rest

\* the code block of the input as memory holds it after processCodeBlock:
\* the copy shares the Language pointer with the input, a nil pointer is
\* replaced in the copy only, a non-nil one is written through
processCodeBlockStore(codeBlock) ==
  IF codeBlock.lang = NilLang
  THEN codeBlock
  ELSE [codeBlock EXCEPT !.lang = mapLanguageToNotionCompatible(codeBlock.lang)]

\* the input list as memory holds it after validateContentBlocks: the
\* slices and the block values of the input are copied, the strings behind
\* the Language pointers of the code blocks it visits are not
RECURSIVE validateContentBlocksStores(_)
validateContentBlocksStores(blocks) ==
  IF blocks = <<>> THEN <<>>
  ELSE
    LET block == blocks[1]
        rest == validateContentBlocksStores(Tail(blocks))
    IN  IF block.kind \in {"BulletedListItemBlock", "NumberedListItemBlock"}
           /\ ~block.ptr
        THEN IF EmptyListText(block) THEN <<block>> \o rest
             ELSE IF Len(block.children) > 0
                  THEN <<[block EXCEPT
                            !.children = validateContentBlocksStores(block.children)]>>
                       \o rest
                  ELSE <<block>> \o rest
        ELSE IF block.kind = "CodeBlock"
             THEN <<processCodeBlockStore(block)>> \o rest
             ELSE <<block>> \o rest

\* blocks[0].(notion.Heading1Block): a value of that type, not a pointer
IsHeading1Value(b) == b.kind = "Heading1Block" /\ ~b.ptr

\* variant: the first top-level heading is taken wherever it stands
RECURSIVE WithoutFirstHeading1(_)
WithoutFirstHeading1(blocks) ==
  IF blocks = <<>> THEN <<>>
  ELSE IF IsHeading1Value(blocks[1]) THEN Tail(blocks)
       ELSE <<blocks[1]>> \o WithoutFirstHeading1(Tail(blocks))

filterTitleBlockAnywhere(blocks) ==
  LET hs == {i \in 1..Len(blocks) : IsHeading1Value(blocks[i])}
  IN  IF hs = {} THEN [title |-> NilBlock, rest |-> blocks]
      ELSE [title |-> blocks[CHOOSE i \in hs : \A j \in hs : i <= j],
            rest |-> WithoutFirstHeading1(blocks)]

\* variant: the title is taken and also left in the content
filterTitleBlockKept(blocks) ==
  IF Len(blocks) = 0 THEN [title |-> NilBlock, rest |-> blocks]
  ELSE IF IsHeading1Value(blocks[1])
       THEN [title |-> blocks[1], rest |-> blocks]
       ELSE [title |-> NilBlock, rest |-> blocks]

filterTitleBlock(blocks) ==
  IF Len(blocks) = 0 THEN [title |-> NilBlock, rest |-> blocks]
  ELSE IF IsHeading1Value(blocks[1])
       THEN [title |-> blocks[1], rest |-> Tail(blocks)]
       ELSE [title |-> NilBlock, rest |-> blocks]

\* sha256 of the source bytes as lowercase hex: a collision-free map to
\* non-empty strings on the sources of the model ("s1": the document that
\* is synchronised, "s2": another version of it, synchronised earlier)
Sources == {"s1", "s2"}
Digest(src) == IF src = "s1" THEN "9f86d081" ELSE "60303ae2"

(* --------------------------- text rewrite ------------------------------ *)
\* strings are sequences of symbols here, so that containment and
\* replacement are computed

\* strings.Contains(s, sub)
Contains(s, sub) ==
  \E i \in 1..(Len(s) + 1) :
    i + Len(sub) - 1 <= Len(s) /\ SubSeq(s, i, i + Len(sub) - 1) = sub

\* strings.ReplaceAll with an empty old: new before every symbol and at the end
RECURSIVE InsertAround(_, _)
InsertAround(s, new) ==
  IF s = <<>> THEN new ELSE new \o <<s[1]>> \o InsertAround(Tail(s), new)

\* strings.ReplaceAll(s, old, new): the non-overlapping occurrences, from the left
RECURSIVE ReplaceAll(_, _, _)
ReplaceAll(s, old, new) ==
  IF old = <<>> THEN InsertAround(s, new)
  ELSE IF Len(s) < Len(old) THEN s
  ELSE IF SubSeq(s, 1, Len(old)) = old
       THEN new \o ReplaceAll(SubSeq(s, Len(old) + 1, Len(s)), old, new)
       ELSE <<s[1]>> \o ReplaceAll(Tail(s), old, new)

\* rewriteTextMap, with the entries of the map in the order the iteration
\* of the Go map gives them
RECURSIVE rewriteTextMap(_, _)
rewriteTextMap(content, entries) ==
  IF entries = <<>> THEN content
  ELSE rewriteTextMap(ReplaceAll(content, entries[1].old, entries[1].new),
                      Tail(entries))

\* the orders in which a Go map of these entries can be iterated
IterationOrders(entries) ==
  {[i \in 1..Len(entries) |-> entries[p[i]]] : p \in Permutations(1..Len(entries))}

\* if matchedKey != "" { ... rewriteTextMap ... }
KeyMatched(matchedKey) == matchedKey # <<>>

\* rewriteContent for a mapping file read as data, when the iteration of
\* the multi-page map meets the keys in keyOrder and that of the page map
\* its entries by entryOrder
rewriteContent(content, mdPath, data, keyOrder, entryOrder) ==
  IF data.shape = "unreadable"
  THEN [content |-> <<>>, err |-> "Error reading rewrite-text mapping file",
        rewrote |-> FALSE, key |-> <<>>]
  ELSE IF data.shape = "single"
  THEN [content |-> rewriteTextMap(content, entryOrder), err |-> "",
        rewrote |-> TRUE, key |-> <<>>]
  ELSE IF data.shape = "multi"
  THEN LET hits == {i \in 1..Len(keyOrder) : Contains(mdPath, keyOrder[i])}
           matchedKey == IF hits = {} THEN <<>>
                         ELSE keyOrder[CHOOSE i \in hits : \A j \in hits : i <= j]
       IN  IF KeyMatched(matchedKey)
           THEN [content |-> rewriteTextMap(content, entryOrder), err |-> "",
                 rewrote |-> TRUE, key |-> matchedKey]
           ELSE [content |-> content, err |-> "", rewrote |-> FALSE,
                 key |-> matchedKey]
  ELSE [content |-> <<>>,
        err |-> "Error decoding rewrite-text mapping file as single or multi-page mapping",
        rewrote |-> FALSE, key |-> <<>>]

(* ------------------------- image references ---------------------------- *)
\* A text is a sequence of pieces: plain characters, an inline reference
\* ![alt](path), or a tag <img src="path" alt=.. width=.. height=..>.
\* A path is a prefix, a base and the parameters after "?".

Param(key, hasEq, val) == [key |-> key, hasEq |-> hasEq, val |-> val]
Path(prefix, base, params) == [prefix |-> prefix, base |-> base, params |-> params]
NoPath == Path("", "", <<>>)

PlainText(chars) ==
  [syn |-> "plain", chars |-> chars, alt |-> "", path |-> NoPath,
   width |-> "", height |-> ""]
MdImage(alt, path) ==
  [syn |-> "md", chars |-> "", alt |-> alt, path |-> path,
   width |-> "", height |-> ""]
HtmlImage(src, alt, width, height) ==
  [syn |-> "html", chars |-> "", alt |-> alt, path |-> src,
   width |-> width, height |-> height]

\* strconv.Atoi on the values that occur
Atoi(v) ==
  CASE v = "100" -> [ok |-> TRUE, n |-> 100]
    [] v = "50" -> [ok |-> TRUE, n |-> 50]
    [] v = "0" -> [ok |-> TRUE, n |-> 0]
    [] OTHER -> [ok |-> FALSE, n |-> 0]

\* the loop of parseImagePath over the parameters
RECURSIVE ParseParams(_, _)
ParseParams(params, acc) ==
  IF params = <<>> THEN acc
  ELSE LET param == params[1]
           kept == [acc EXCEPT !.keep = Append(@, param)]
           next ==
             IF ~param.hasEq THEN kept
             ELSE IF param.key = "width"
                  THEN IF Atoi(param.val).ok
                       THEN [acc EXCEPT !.width = Atoi(param.val).n]
                       ELSE kept
             ELSE IF param.key = "height"
                  THEN IF Atoi(param.val).ok
                       THEN [acc EXCEPT !.height = Atoi(param.val).n]
                       ELSE kept
             ELSE kept
       IN  ParseParams(Tail(params), next)

\* parseImagePath: the path without its numeric width and height
\* parameters, and these two numbers
parseImagePath(path) ==
  IF path.params = <<>> THEN [path |-> path, width |-> 0, height |-> 0]
  ELSE LET r == ParseParams(path.params, [keep |-> <<>>, width |-> 0, height |-> 0])
       IN  [path |-> Path(path.prefix, path.base, r.keep),
            width |-> r.width, height |-> r.height]

\* strings.HasPrefix(path, "http://") || strings.HasPrefix(path, "https://")
HasHttpPrefix(path) == path.prefix \in {"http://", "https://"}

\* the characters of a path
ParamString(p) == IF p.hasEq THEN p.key \o "=" \o p.val ELSE p.key
RECURSIVE JoinParams(_)
JoinParams(params) ==
  IF Len(params) = 1 THEN ParamString(params[1])
  ELSE ParamString(params[1]) \o "&" \o JoinParams(Tail(params))
PathString(path) ==
  path.prefix \o path.base \o
  (IF path.params = <<>> THEN "" ELSE "?" \o JoinParams(path.params))

ImageReference(altText, path, isLocal, width, height) ==
  [AltText |-> altText, Path |-> path, IsLocal |-> isLocal,
   Width |-> width, Height |-> height]

\* markdownImageRegex.FindAllStringSubmatch: alt text and path of every
\* inline reference, from the left
RECURSIVE markdownImageRegex(_)
markdownImageRegex(content) ==
  IF content = <<>> THEN <<>>
  ELSE (IF content[1].syn = "md"
        THEN <<[alt |-> content[1].alt, path |-> content[1].path]>>
        ELSE <<>>) \o markdownImageRegex(Tail(content))

\* htmlImageRegex.FindAllStringSubmatch: the [^>]* that follows the src
\* attribute is greedy and takes the rest of the tag, so the optional
\* groups for alt, width and height match nothing
RECURSIVE htmlImageRegex(_)
htmlImageRegex(content) ==
  IF content = <<>> THEN <<>>
  ELSE (IF content[1].syn = "html"
        THEN <<[src |-> content[1].path, alt |-> "", width |-> "", height |-> ""]>>
        ELSE <<>>) \o htmlImageRegex(Tail(content))

MarkdownReference(match) ==
  LET p == parseImagePath(match.path)
  IN  ImageReference(match.alt, p.path, ~HasHttpPrefix(p.path), p.width, p.height)

HtmlReference(match) ==
  LET width == IF match.width # "" /\ Atoi(match.width).ok
               THEN Atoi(match.width).n ELSE 0
      height == IF match.height # "" /\ Atoi(match.height).ok
                THEN Atoi(match.height).n ELSE 0
      p == parseImagePath(match.src)
  IN  ImageReference(match.alt, p.path, ~HasHttpPrefix(p.path),
                     IF width = 0 THEN p.width ELSE width,
                     IF height = 0 THEN p.height ELSE height)

\* FindImageReferences: the inline references, then the tags
FindImageReferences(content) ==
  LET mdMatches == markdownImageRegex(content)
      htmlMatches == htmlImageRegex(content)
  IN  [i \in 1..Len(mdMatches) |-> MarkdownReference(mdMatches[i])]
      \o [i \in 1..Len(htmlMatches) |-> HtmlReference(htmlMatches[i])]

(* -------------------------- image blocks ------------------------------- *)
\* the pieces of the strings that rich-text runs hold
Lex(str) ==
  CASE str = "Hello ![alt](http://x/img.png?width=100)" ->
         <<PlainText("Hello "), MdImage("alt", Path("http://", "x/img.png", <<Param("width", TRUE, "100")>>))>>
    [] str = "![](images/a.png)" ->
         <<MdImage("", Path("", "images/a.png", <<>>))>>
    [] str = "<img src='/srv/b.png?height=50' alt='logo'>" ->
         <<HtmlImage(Path("/", "srv/b.png", <<Param("height", TRUE, "50")>>), "logo", "", "")>>
    [] str = "<img src='images/a.png'> ![alt](http://x/img.png?width=100)" ->
         <<HtmlImage(Path("", "images/a.png", <<>>), "", "", ""), PlainText(" "),
           MdImage("alt", Path("http://", "x/img.png", <<Param("width", TRUE, "100")>>))>>
    [] str = "" -> <<>>
    [] OTHER -> <<PlainText(str)>>

\* fullText += richText.Text.Content, over the runs of the paragraph
RECURSIVE FullText(_)
FullText(richText) ==
  IF richText = <<>> THEN <<>> ELSE Lex(richText[1]) \o FullText(Tail(richText))

\* the caption of an image block: the alt text when there is one, then the
\* dimensions when one of them is positive
DimensionInfo(width, height) ==
  " (" \o (IF width > 0 THEN "width: " \o ToString(width) \o "px" ELSE "")
       \o (IF width > 0 /\ height > 0 THEN ", " ELSE "")
       \o (IF height > 0 THEN "height: " \o ToString(height) \o "px" ELSE "")
       \o ")"
Caption(altText, width, height) ==
  (IF altText # "" THEN <<altText>> ELSE <<>>)
  \o (IF width > 0 \/ height > 0 THEN <<DimensionInfo(width, height)>> ELSE <<>>)

createImageBlockWithFileUpload(fileUploadID, altText, width, height) ==
  [Blk("ImageBlock", FALSE, Caption(altText, width, height), NilLang, <<>>)
     EXCEPT !.image = [type |-> "file_upload", url |-> "", fileUploadID |-> fileUploadID]]

createImageBlockFromURL(url, altText, width, height) ==
  [Blk("ImageBlock", TRUE, Caption(altText, width, height), NilLang, <<>>)
     EXCEPT !.image = [type |-> "external", url |-> url, fileUploadID |-> ""]]

\* filepath.IsAbs, and filepath.Join(filepath.Dir(basePath), imagePath)
\* for the markdown file docs/a.md
DirOfBasePath == "docs"
ImagePath(path) ==
  IF path.prefix = "/" THEN PathString(path)
  ELSE DirOfBasePath \o "/" \o PathString(path)

\* os.Stat(imagePath) in the file system fs: "file" when it succeeds,
\* "absent" for the error that os.IsNotExist recognises, "notdir" for
\* another error (a component of the path is not a directory)
Stat(fs, imagePath) == IF imagePath \in DOMAIN fs THEN fs[imagePath] ELSE "absent"
IsNotExist(stat) == stat = "absent"

\* the ID that a successful upload of imagePath returns
UploadID(imagePath) == "upload:" \o imagePath

\* processImageInParagraph, in the file system fs and with an upload that
\* succeeds or not by uploadOk
processImageInParagraph(paragraphBlock, fs, uploadOk) ==
  LET imageRefs == FindImageReferences(FullText(paragraphBlock.richText))
      ref == imageRefs[1]
      imagePath == ImagePath(ref.Path)
  IN  IF Len(imageRefs) = 0
      THEN [blocks |-> <<paragraphBlock>>, replaced |-> FALSE, err |-> "",
            uploads |-> <<>>]
      ELSE IF ref.IsLocal
      THEN IF IsNotExist(Stat(fs, imagePath))
           THEN [blocks |-> <<>>, replaced |-> FALSE,
                 err |-> "local image file not found: " \o imagePath,
                 uploads |-> <<>>]
           ELSE IF ~uploadOk
           THEN [blocks |-> <<>>, replaced |-> FALSE, err |-> "upload failed",
                 uploads |-> <<imagePath>>]
           ELSE [blocks |-> <<createImageBlockWithFileUpload(UploadID(imagePath),
                                ref.AltText, ref.Width, ref.Height)>>,
                 replaced |-> TRUE, err |-> "", uploads |-> <<imagePath>>]
      ELSE [blocks |-> <<createImageBlockFromURL(PathString(ref.Path), ref.AltText,
                            ref.Width, ref.Height)>>,
            replaced |-> TRUE, err |-> "", uploads |-> <<>>]

\* does the loop of ProcessImageBlocks hand the block to processImageInParagraph
IsParagraphPointer(block) == block.kind = "ParagraphBlock" /\ block.ptr

(* ------------------------- input domains ------------------------------- *)
\* blocks of the documents that runs synchronise
RunBlocks ==
  { Heading1(<<"Title">>), Paragraph(<<"Hello ![alt](http://x/img.png?width=100)">>),
    Bulleted(<<>>, <<>>), Code(TRUE, NilLang), Quote(<<Code(TRUE, NilLang)>>) }

RECURSIVE SeqsUpTo(_, _)
SeqsUpTo(S, n) ==
  IF n = 0 THEN {<<>>}
  ELSE LET shorter == SeqsUpTo(S, n - 1)
       IN  shorter \cup {<<x>> \o s : x \in S, s \in {t \in shorter : Len(t) = n - 1}}

RunDocs == SeqsUpTo(RunBlocks, MaxDocLen)

\* blocks of the lists given to the pure functions
PureBlocks ==
  { Heading1(<<"Title">>), Heading1(<<>>), Heading2(<<"Sub">>),
    Paragraph(<<"a">>), Bulleted(<<"">>, <<>>), Bulleted(<<"x">>, <<>>),
    Code(TRUE, NilLang), Code(FALSE, "sh"),
    Bulleted(<<"", "">>, <<>>), Numbered(<<>>, <<>>),
    Numbered(<<"n">>, <<Bulleted(<<"">>, <<>>), Code(TRUE, "py")>>) }

\* the languages of the code blocks given to the pure functions: the keys
\* of the table, an unset language and languages that are no key
Langs == DOMAIN langMap \cup {NilLang, "go", "shell", "unknown-lang"}

\* one code block, by value or by pointer, in every language
CodeLists == {<<Code(p, l)>> : p \in BOOLEAN, l \in Langs}

PureLists == SeqsUpTo(PureBlocks, MaxListLen) \cup CodeLists

\* rewrite inputs: contents, document paths, page maps, mapping files
RewriteContents == { <<"see", "TEST_REPLACE", "here">>, <<"a", "b">> }
RewritePaths == { <<"project", "/", "docs", "/", "a.md">>, <<"notes.md">> }
RewriteKeys == { <<>>, <<"docs", "/", "a.md">>, <<"docs">>, <<"other.md">> }
PageMaps ==
  { <<[old |-> <<"TEST_REPLACE">>, new |-> <<"DONE">>]>>,
    <<[old |-> <<"a">>, new |-> <<"b">>], [old |-> <<"b">>, new |-> <<"c">>]>> }

MappingFiles ==
  {[shape |-> "unreadable", single |-> <<>>, multi |-> <<>>],
   [shape |-> "undecodable", single |-> <<>>, multi |-> <<>>]}
  \cup {[shape |-> "single", single |-> m, multi |-> <<>>] : m \in PageMaps \cup {<<>>}}
  \cup UNION {{[shape |-> "multi", single |-> <<>>, multi |-> f] : f \in [K -> PageMaps]} :
              K \in {S \in SUBSET RewriteKeys : S # {} /\ Cardinality(S) <= MaxKeys}}

RewriteInputs ==
  [content : RewriteContents, path : RewritePaths, data : MappingFiles]

\* pieces of text searched for image references
RemotePath == Path("http://", "x/img.png", <<Param("width", TRUE, "100")>>)
SecurePath ==
  Path("https://", "y/pic.jpg",
       <<Param("v", TRUE, "2"), Param("height", TRUE, "50"), Param("width", TRUE, "abc")>>)
LocalPath == Path("", "images/a.png", <<>>)
AbsPath == Path("/", "srv/b.png", <<Param("width", FALSE, "")>>)
TextPieces ==
  { PlainText("Hello "),
    MdImage("alt", RemotePath),
    MdImage("", LocalPath),
    HtmlImage(AbsPath, "logo", "100", "50"),
    HtmlImage(SecurePath, "", "", "") }
Texts == SeqsUpTo(TextPieces, MaxTextLen)

\* blocks given to ProcessImageBlocks, and the file systems it runs in
ImageInputBlocks ==
  { Paragraph(<<"plain text">>),
    Paragraph(<<"Hello ![alt](http://x/img.png?width=100)">>),
    Paragraph(<<"see ", "![](images/a.png)">>),
    Paragraph(<<"<img src='/srv/b.png?height=50' alt='logo'>">>),
    Paragraph(<<"<img src='images/a.png'> ![alt](http://x/img.png?width=100)">>),
    Heading2(<<"![](images/a.png)">>) }
LocalImagePaths == {"docs/images/a.png", "/srv/b.png"}
FileSystems == [LocalImagePaths -> {"file", "absent", "notdir"}]
ImageInputs == [blocks : SeqsUpTo(ImageInputBlocks, MaxListLen), fs : FileSystems]

(* ------------------------------ state ---------------------------------- *)
VARIABLES
  mdContent,      \* the source bytes (after rewrite)
  doc,            \* notionmd.Convert(mdContent)
  dryRun, useHash, replaceF,   \* flags
  pc,             \* position of main
  contentBlocks, titleBlock, titleErr,
  contentHash, propertyHash,
  startCursor, resp,           \* clearPageContent's loop state
  ops,            \* remote calls issued by this run, in order
  pageKind, pageTitle, pageHash, pageChildren, nextId,  \* the remote page
  runNo, prev, startChildren,  \* history: run number, previous run, children at run start
  pin, pout, pfn, \* pure-function application: input, output, function
  pmem            \* the memory the input's pointers lead to, as it reads now

runVars == <<pc, contentBlocks, titleBlock, titleErr, contentHash,
             propertyHash, startCursor, resp, ops>>
inputVars == <<mdContent, doc, dryRun, useHash, replaceF>>
remoteVars == <<pageKind, pageTitle, pageHash, pageChildren, nextId>>
histVars == <<runNo, prev, startChildren>>
pureVars == <<pin, pout, pfn, pmem>>
vars == <<inputVars, runVars, remoteVars, histVars, pureVars>>

Terminal == {"Skipped", "Written", "Failed", "DryRunDone"}

\* remote calls that change the page
Mutations == {"UpdateTitle", "SetProperty", "DeleteBlock", "AppendChildren"}

Op(name, ok, arg) == [op |-> name, ok |-> ok, arg |-> arg]

NoResp == [results |-> <<>>, hasMore |-> FALSE, nextCursor |-> 0]

OldChildren(n) == [i \in 1..n |-> [id |-> i, block |-> Paragraph(<<"old">>)]]

NoPrev ==
  [outcome |-> "none", children |-> <<>>, useHash |-> FALSE,
   hashWritten |-> FALSE]

(* ------------------------ the remote service --------------------------- *)
\* the children from the block whose id is the cursor on (0: from the start)
RECURSIVE ChildrenFrom(_, _)
ChildrenFrom(children, cursor) ==
  IF cursor = 0 \/ children = <<>> THEN children
  ELSE IF children[1].id = cursor THEN children
       ELSE ChildrenFrom(Tail(children), cursor)

\* FindBlockChildrenByID(pageID, {StartCursor}): one listing page, with the
\* "has more / next token" contract
ListResponse(children, cursor) ==
  LET from == ChildrenFrom(children, cursor)
      n == IF Len(from) < PageSize THEN Len(from) ELSE PageSize
  IN  [results |-> [i \in 1..n |-> from[i].id],
       hasMore |-> Len(from) > PageSize,
       nextCursor |-> IF Len(from) > PageSize THEN from[PageSize + 1].id ELSE 0]

\* DeleteBlock(id)
RemoveChild(children, id) == SelectSeq(children, LAMBDA c : c.id # id)

\* PATCH /v1/blocks/{page}/children: the blocks go to the end, with new ids
AppendedChildren(children, blocks, firstId) ==
  children \o [i \in 1..Len(blocks) |-> [id |-> firstId + i - 1, block |-> blocks[i]]]

\* variant: the property is looked up under a name the page does not have
ReadPropertyUnset(kind, stored) == ""

\* page.Properties.(notion.DatabasePageProperties) and props[propName]
ReadProperty(kind, stored) == IF kind = "plain" THEN "" ELSE stored

\* the blocks of a children list, without the ids
BlocksOf(children) == [i \in 1..Len(children) |-> children[i].block]

(* ------------------------------ main ----------------------------------- *)
\* variant: a page without a stored hash counts as unchanged
NoContentChangeOrUnset(propHash, hash) == propHash = hash \/ propHash = ""

\* variant: the comparison never finds the content unchanged
NoContentChangeNever(propHash, hash) == FALSE

\* if propertyHash == contentHash { ... os.Exit(0) }
NoContentChange(propHash, hash) == propHash = hash

\* if replaceF { clearPageContent } ; replacePageContent
ContentPc(replace) == IF replace THEN "ClearList" ELSE "Append"

\* variant: the hash gate is left out
PcAfterTitleNoHash(dry, hash, replace) ==
  IF dry THEN "DryRunDone" ELSE ContentPc(replace)

\* if dryRun { return } ; if useHash { ... }
PcAfterTitle(dry, hash, replace) ==
  IF dry THEN "DryRunDone"
  ELSE IF hash THEN "HashRead" ELSE ContentPc(replace)

\* the discarded result of updatePageTitle does not change main's course
PcAfterTitleUpdate(err) == "DryCheck"

\* variant: a failed setProperty ends the run
PcAfterHashWriteFatal(ok, replace) ==
  IF ok THEN ContentPc(replace) ELSE "Failed"

\* a failed setProperty is a warning
PcAfterHashWrite(ok, replace) == ContentPc(replace)

Init ==
  /\ mdContent = "s1"
  /\ doc \in RunDocs
  /\ dryRun \in BOOLEAN /\ useHash \in BOOLEAN /\ replaceF \in BOOLEAN
  /\ pc = "Start"
  /\ contentBlocks = <<>> /\ titleBlock = NilBlock /\ titleErr = ""
  /\ contentHash = "" /\ propertyHash = ""
  /\ startCursor = 0 /\ resp = NoResp
  /\ ops = <<>>
  /\ pageKind \in {"database", "database_no_title", "plain"}
  /\ pageTitle = "Old title"
  /\ pageHash \in {""} \cup {Digest(s) : s \in Sources}
  /\ (pageKind = "plain" => pageHash = "")
  /\ \E n \in 0..MaxOld : pageChildren = OldChildren(n) /\ nextId = n + 1
  /\ runNo = 1 /\ prev = NoPrev /\ startChildren = pageChildren
  /\ pin = <<>> /\ pout = [title |-> NilBlock, rest |-> <<>>] /\ pfn = "none"
  /\ pmem = <<>>

\* os.ReadFile, rewriteContent, notionmd.Convert, sha256.Sum256
LoadConvert ==
  /\ pc = "Start"
  /\ \E ok \in BOOLEAN :
       IF ok
       THEN /\ pc' = "Converted"
            /\ contentBlocks' = doc
            /\ contentHash' = Digest(mdContent)
       ELSE /\ pc' = "Failed"
            /\ UNCHANGED <<contentBlocks, contentHash>>
  /\ UNCHANGED <<titleBlock, titleErr, propertyHash, startCursor, resp, ops>>
  /\ UNCHANGED <<inputVars, remoteVars, histVars, pureVars>>

\* contentBlocks = validateContentBlocks(contentBlocks)
\* titleBlock, contentBlocks = filterTitleBlock(contentBlocks)
ValidateAndSplit ==
  /\ pc = "Converted"
  /\ LET f == filterTitleBlock(validateContentBlocks(contentBlocks))
     IN  /\ titleBlock' = f.title
         /\ contentBlocks' = f.rest
         /\ pc' = IF f.title # NilBlock THEN "TitleFetch" ELSE "DryCheck"
  /\ UNCHANGED <<titleErr, contentHash, propertyHash, startCursor, resp, ops>>
  /\ UNCHANGED <<inputVars, remoteVars, histVars, pureVars>>

\* updatePageTitle up to the lookup of the title property
TitleFetch ==
  /\ pc = "TitleFetch"
  /\ IF ~IsHeading1Value(titleBlock)
     THEN /\ titleErr' = "titleBlock is not a Heading1Block"
          /\ pc' = PcAfterTitleUpdate(titleErr')
          /\ UNCHANGED ops
     ELSE IF Len(titleBlock.richText) = 0
     THEN /\ titleErr' = "Heading1Block has no rich text"
          /\ pc' = PcAfterTitleUpdate(titleErr')
          /\ UNCHANGED ops
     ELSE \E ok \in BOOLEAN :
            /\ ops' = Append(ops, Op("FindPageForTitle", ok, 0))
            /\ titleErr' = IF ~ok THEN "failed to fetch page"
                           ELSE IF pageKind = "plain"
                                THEN "unexpected properties type for page"
                           ELSE IF pageKind = "database_no_title"
                                THEN "no title property found on page"
                           ELSE ""
            /\ pc' = IF titleErr' = "" THEN "TitleWrite"
                     ELSE PcAfterTitleUpdate(titleErr')
  /\ UNCHANGED <<contentBlocks, titleBlock, contentHash, propertyHash,
                 startCursor, resp>>
  /\ UNCHANGED <<inputVars, remoteVars, histVars, pureVars>>

\* updatePageTitle: client.UpdatePage of the title property
TitleWrite ==
  /\ pc = "TitleWrite"
  /\ \E ok \in BOOLEAN :
       /\ ops' = Append(ops, Op("UpdateTitle", ok, 0))
       /\ titleErr' = IF ok THEN "" ELSE "update failed"
       /\ pageTitle' = IF ok THEN titleBlock.richText[1] ELSE pageTitle
       /\ pc' = PcAfterTitleUpdate(titleErr')
  /\ UNCHANGED <<contentBlocks, titleBlock, contentHash, propertyHash,
                 startCursor, resp>>
  /\ UNCHANGED <<pageKind, pageHash, pageChildren, nextId>>
  /\ UNCHANGED <<inputVars, histVars, pureVars>>

\* if dryRun { ... return } ; if useHash ... ; if replaceF ...
DryCheck ==
  /\ pc = "DryCheck"
  /\ pc' = PcAfterTitle(dryRun, useHash, replaceF)
  /\ UNCHANGED <<contentBlocks, titleBlock, titleErr, contentHash,
                 propertyHash, startCursor, resp, ops>>
  /\ UNCHANGED <<inputVars, remoteVars, histVars, pureVars>>

\* getProperty and the comparison with the fresh digest
HashRead ==
  /\ pc = "HashRead"
  /\ \E ok \in BOOLEAN :
       /\ ops' = Append(ops, Op("GetProperty", ok, 0))
       /\ IF ok
          THEN /\ propertyHash' = ReadProperty(pageKind, pageHash)
               /\ pc' = IF NoContentChange(propertyHash', contentHash)
                        THEN "Skipped" ELSE "HashWrite"
          ELSE /\ pc' = "Failed"
               /\ UNCHANGED propertyHash
  /\ UNCHANGED <<contentBlocks, titleBlock, titleErr, contentHash,
                 startCursor, resp>>
  /\ UNCHANGED <<inputVars, remoteVars, histVars, pureVars>>

\* setProperty: the page has the property only when it is a database page
HashWrite ==
  /\ pc = "HashWrite"
  /\ \E ok \in (IF pageKind = "plain" THEN {FALSE} ELSE BOOLEAN) :
       /\ ops' = Append(ops, Op("SetProperty", ok, 0))
       /\ pageHash' = IF ok THEN contentHash ELSE pageHash
       /\ pc' = PcAfterHashWrite(ok, replaceF)
  /\ UNCHANGED <<contentBlocks, titleBlock, titleErr, contentHash,
                 propertyHash, startCursor, resp>>
  /\ UNCHANGED <<pageKind, pageTitle, pageChildren, nextId>>
  /\ UNCHANGED <<inputVars, histVars, pureVars>>

\* clearPageContent: client.FindBlockChildrenByID
ClearList ==
  /\ pc = "ClearList"
  /\ \E ok \in BOOLEAN :
       /\ ops' = Append(ops, Op("ListChildren", ok, startCursor))
       /\ IF ok
          THEN /\ resp' = ListResponse(pageChildren, startCursor)
               /\ pc' = "ClearDelete"
          ELSE /\ pc' = "Failed"
               /\ UNCHANGED resp
  /\ UNCHANGED <<contentBlocks, titleBlock, titleErr, contentHash,
                 propertyHash, startCursor>>
  /\ UNCHANGED <<inputVars, remoteVars, histVars, pureVars>>

\* clearPageContent: client.DeleteBlock of the next listed block
ClearDelete ==
  /\ pc = "ClearDelete"
  /\ resp.results # <<>>
  /\ \E ok \in BOOLEAN :
       /\ ops' = Append(ops, Op("DeleteBlock", ok, Head(resp.results)))
       /\ IF ok
          THEN /\ pageChildren' = RemoveChild(pageChildren, Head(resp.results))
               /\ resp' = [resp EXCEPT !.results = Tail(resp.results)]
               /\ pc' = "ClearDelete"
          ELSE /\ pc' = "Failed"
               /\ UNCHANGED <<pageChildren, resp>>
  /\ UNCHANGED <<contentBlocks, titleBlock, titleErr, contentHash,
                 propertyHash, startCursor>>
  /\ UNCHANGED <<pageKind, pageTitle, pageHash, nextId>>
  /\ UNCHANGED <<inputVars, histVars, pureVars>>

\* variant: the loop stops after the first listing page
LastListingAlways(r) == TRUE

\* if !resp.HasMore || resp.NextCursor == nil ... { break }
LastListing(r) == ~r.hasMore \/ r.nextCursor = 0

\* clearPageContent: the end of one listing page
ClearNext ==
  /\ pc = "ClearDelete"
  /\ resp.results = <<>>
  /\ IF LastListing(resp)
     THEN /\ pc' = "Append"
          /\ UNCHANGED startCursor
     ELSE /\ startCursor' = resp.nextCursor
          /\ pc' = "ClearList"
  /\ UNCHANGED <<contentBlocks, titleBlock, titleErr, contentHash,
                 propertyHash, resp, ops>>
  /\ UNCHANGED <<inputVars, remoteVars, histVars, pureVars>>

\* replacePageContent and the success message
AppendContent ==
  /\ pc = "Append"
  /\ \E ok \in BOOLEAN :
       /\ ops' = Append(ops, Op("AppendChildren", ok, 0))
       /\ IF ok
          THEN /\ pageChildren' = AppendedChildren(pageChildren, contentBlocks, nextId)
               /\ nextId' = nextId + Len(contentBlocks)
               /\ pc' = "Written"
          ELSE /\ pc' = "Failed"
               /\ UNCHANGED <<pageChildren, nextId>>
  /\ UNCHANGED <<contentBlocks, titleBlock, titleErr, contentHash,
                 propertyHash, startCursor, resp>>
  /\ UNCHANGED <<pageKind, pageTitle, pageHash>>
  /\ UNCHANGED <<inputVars, histVars, pureVars>>

\* the command is run again on the same source and page, in the same mode,
\* with or without --dry-run
NextRun ==
  /\ pc \in Terminal
  /\ runNo < MaxRuns
  /\ runNo' = runNo + 1
  /\ dryRun' \in BOOLEAN
  /\ prev' = [outcome |-> pc, children |-> pageChildren, useHash |-> useHash,
              hashWritten |-> \E i \in 1..Len(ops) :
                                ops[i].op = "SetProperty" /\ ops[i].ok]
  /\ startChildren' = pageChildren
  /\ pc' = "Start"
  /\ contentBlocks' = <<>> /\ titleBlock' = NilBlock /\ titleErr' = ""
  /\ contentHash' = "" /\ propertyHash' = ""
  /\ startCursor' = 0 /\ resp' = NoResp
  /\ ops' = <<>>
  /\ UNCHANGED <<mdContent, doc, useHash, replaceF, remoteVars, pureVars>>

Next ==
  \/ LoadConvert
  \/ ValidateAndSplit
  \/ TitleFetch
  \/ TitleWrite
  \/ DryCheck
  \/ HashRead
  \/ HashWrite
  \/ ClearList
  \/ ClearDelete
  \/ ClearNext
  \/ AppendContent
  \/ NextRun

Spec == Init /\ [][Next]_vars

(* ------------------ pure functions applied to inputs ------------------- *)
InitPure ==
  /\ pin \in PureLists
  /\ pmem = pin
  /\ pout = [title |-> NilBlock, rest |-> <<>>] /\ pfn = "none"
  /\ mdContent = "s1" /\ doc = <<>>
  /\ dryRun = FALSE /\ useHash = FALSE /\ replaceF = FALSE
  /\ pc = "Start"
  /\ contentBlocks = <<>> /\ titleBlock = NilBlock /\ titleErr = ""
  /\ contentHash = "" /\ propertyHash = ""
  /\ startCursor = 0 /\ resp = NoResp
  /\ ops = <<>>
  /\ pageKind = "database" /\ pageTitle = "Old title" /\ pageHash = ""
  /\ pageChildren = <<>> /\ nextId = 1
  /\ runNo = 1 /\ prev = NoPrev /\ startChildren = <<>>

ApplyFilterTitle ==
  /\ pfn = "none"
  /\ pout' = filterTitleBlock(pin)
  /\ pfn' = "filterTitleBlock"
  /\ UNCHANGED <<pin, pmem, inputVars, runVars, remoteVars, histVars>>

ApplyValidate ==
  /\ pfn = "none"
  /\ pout' = validateContentBlocks(pin)
  /\ pmem' = validateContentBlocksStores(pmem)
  /\ pfn' = "validateContentBlocks"
  /\ UNCHANGED <<pin, inputVars, runVars, remoteVars, histVars>>

NextPure ==
  \/ ApplyFilterTitle
  \/ ApplyValidate

SpecPure == InitPure /\ [][NextPure]_vars

\* the state of the run, which the applications of pure functions leave alone
RunIdle ==
  /\ mdContent = "s1" /\ doc = <<>>
  /\ dryRun = FALSE /\ useHash = FALSE /\ replaceF = FALSE
  /\ pc = "Start"
  /\ contentBlocks = <<>> /\ titleBlock = NilBlock /\ titleErr = ""
  /\ contentHash = "" /\ propertyHash = ""
  /\ startCursor = 0 /\ resp = NoResp
  /\ ops = <<>>
  /\ pageKind = "database" /\ pageTitle = "Old title" /\ pageHash = ""
  /\ pageChildren = <<>> /\ nextId = 1
  /\ runNo = 1 /\ prev = NoPrev /\ startChildren = <<>>

InitRewrite ==
  /\ pin \in RewriteInputs
  /\ pmem = <<>>
  /\ pout = [content |-> <<>>, err |-> "", rewrote |-> FALSE, key |-> <<>>]
  /\ pfn = "none"
  /\ RunIdle

\* the keys of the multi-page map in some order without repetition
KeyOrders(multi) ==
  LET K == DOMAIN multi
  IN  {o \in [1..Cardinality(K) -> K] : \A k \in K : \E i \in DOMAIN o : o[i] = k}

ApplyRewrite ==
  /\ pfn = "none"
  /\ IF pin.data.shape = "multi"
     THEN \E keyOrder \in KeyOrders(pin.data.multi) :
            LET hits == {i \in 1..Len(keyOrder) : Contains(pin.path, keyOrder[i])}
                pageMap == IF hits = {} THEN <<>>
                           ELSE pin.data.multi[keyOrder[CHOOSE i \in hits :
                                                          \A j \in hits : i <= j]]
            IN  \E entryOrder \in IterationOrders(pageMap) :
                  pout' = rewriteContent(pin.content, pin.path, pin.data,
                                         keyOrder, entryOrder)
     ELSE \E entryOrder \in IterationOrders(pin.data.single) :
            pout' = rewriteContent(pin.content, pin.path, pin.data, <<>>, entryOrder)
  /\ pfn' = "rewriteContent"
  /\ UNCHANGED <<pin, pmem, inputVars, runVars, remoteVars, histVars>>

NextRewrite ==
  \/ ApplyRewrite

SpecRewrite == InitRewrite /\ [][NextRewrite]_vars

InitText ==
  /\ pin \in Texts
  /\ pmem = <<>>
  /\ pout = <<>>
  /\ pfn = "none"
  /\ RunIdle

ApplyFindImageReferences ==
  /\ pfn = "none"
  /\ pout' = FindImageReferences(pin)
  /\ pfn' = "FindImageReferences"
  /\ UNCHANGED <<pin, pmem, inputVars, runVars, remoteVars, histVars>>

NextText ==
  \/ ApplyFindImageReferences

SpecText == InitText /\ [][NextText]_vars

\* ProcessImageBlocks: pout holds the position in the loop, the result so
\* far, the error and the paths given to UploadFile
InitImage ==
  /\ pin \in ImageInputs
  /\ pmem = <<>>
  /\ pout = [i |-> 1, result |-> <<>>, err |-> "", uploads |-> <<>>, done |-> FALSE]
  /\ pfn = "ProcessImageBlocks"
  /\ RunIdle

\* one iteration of the loop over the blocks
ImageStep ==
  /\ ~pout.done /\ pout.i <= Len(pin.blocks)
  /\ LET block == pin.blocks[pout.i]
     IN  IF IsParagraphPointer(block)
         THEN \E uploadOk \in BOOLEAN :
                LET r == processImageInParagraph(block, pin.fs, uploadOk)
                IN  /\ uploadOk \/ r.uploads # <<>>
                    /\ (r.uploads # <<>> /\ Stat(pin.fs, r.uploads[1]) # "file") => ~uploadOk
                    /\ pout' = IF r.err # ""
                               THEN [pout EXCEPT !.result = <<>>, !.err = r.err,
                                                 !.uploads = @ \o r.uploads,
                                                 !.done = TRUE]
                               ELSE [pout EXCEPT !.i = @ + 1,
                                                 !.result = @ \o r.blocks,
                                                 !.uploads = @ \o r.uploads]
         ELSE pout' = [pout EXCEPT !.i = @ + 1, !.result = Append(@, block)]
  /\ UNCHANGED <<pin, pmem, pfn, inputVars, runVars, remoteVars, histVars>>

\* return result, nil
ImageReturn ==
  /\ ~pout.done /\ pout.i > Len(pin.blocks)
  /\ pout' = [pout EXCEPT !.done = TRUE]
  /\ UNCHANGED <<pin, pmem, pfn, inputVars, runVars, remoteVars, histVars>>

NextImage ==
  \/ ImageStep
  \/ ImageReturn

SpecImage == InitImage /\ [][NextImage]_vars

(* ------------------------------ claims --------------------------------- *)
\* positions of the calls of one kind in the run's log
Idx(name) == {i \in 1..Len(ops) : ops[i].op = name}
ContentIdx == Idx("ListChildren") \cup Idx("DeleteBlock") \cup Idx("AppendChildren")

\* C1: in dry-run mode the run issues no remote mutation (title update,
\* property write, block deletion, children append), whatever the document.
C1_DryRunNoMutation ==
  dryRun => \A i \in 1..Len(ops) : ops[i].op \notin Mutations

\* C2: a run that ends in Skipped has issued no remote mutation.
C2_SkippedNoMutation ==
  pc = "Skipped" => \A i \in 1..Len(ops) : ops[i].op \notin Mutations

\* C3: the run goes to Skipped exactly when hashing is enabled and the fresh
\* digest equals the hash stored on the page; with hashing disabled, no
\* stored hash or a different stored hash it proceeds to the content write.
C3_SkipIffHashMatch ==
  [][ /\ (pc' = "Skipped" /\ pc # "Skipped")
           => (useHash /\ ~dryRun /\ pc = "HashRead" /\ contentHash # ""
               /\ pageHash = contentHash /\ propertyHash' = pageHash)
      /\ (pc = "HashRead" /\ pc' # pc)
           => /\ ops'[Len(ops')].ok => (pc' = "Skipped" <=> pageHash = contentHash)
              /\ (ops'[Len(ops')].ok /\ pageHash # contentHash) => pc' = "HashWrite"
              /\ ~ops'[Len(ops')].ok => pc' = "Failed"
      /\ (pc = "HashWrite" /\ pc' # pc) => pc' = ContentPc(replaceF)
      /\ (pc = "DryCheck" /\ pc' # pc /\ ~dryRun)
           => pc' = IF useHash THEN "HashRead" ELSE ContentPc(replaceF)
    ]_vars

C3_Witness ==
  /\ runNo = 2 /\ prev.outcome = "Written" /\ prev.useHash
  /\ useHash /\ pc = "Skipped"

\* C4: with hashing enabled the remote calls come in the order read stored
\* hash, write new hash, clear (replace mode only), append; no hash write
\* after a clear or append, no clear or append before the hash read.
C4_HashOrder ==
  useHash =>
    /\ Cardinality(Idx("GetProperty")) <= 1
    /\ Cardinality(Idx("SetProperty")) <= 1
    /\ Cardinality(Idx("AppendChildren")) <= 1
    /\ \A w \in Idx("SetProperty") :
         /\ \E r \in Idx("GetProperty") : r < w /\ ops[r].ok
         /\ \A c \in ContentIdx : w < c
    /\ \A c \in ContentIdx :
         /\ \E r \in Idx("GetProperty") : r < c
         /\ \E w \in Idx("SetProperty") : w < c
    /\ \A a \in Idx("AppendChildren") :
         \A d \in Idx("ListChildren") \cup Idx("DeleteBlock") : d < a
    /\ ~replaceF => Idx("ListChildren") \cup Idx("DeleteBlock") = {}
    /\ (replaceF /\ pc = "Written") => Idx("ListChildren") # {}

C4_Witness ==
  /\ useHash /\ replaceF /\ pc = "Written"
  /\ Idx("DeleteBlock") # {} /\ Idx("SetProperty") # {}

C6_WrittenChildren ==
  pc = "Written" =>
    /\ contentBlocks = filterTitleBlock(validateContentBlocks(doc)).rest
    /\ IF replaceF
       THEN /\ BlocksOf(pageChildren) = contentBlocks
            /\ \A k \in 1..Len(startChildren) :
                 \E d \in Idx("DeleteBlock") :
                   /\ ops[d].ok /\ ops[d].arg = startChildren[k].id
                   /\ \A a \in Idx("AppendChildren") : d < a
       ELSE /\ Idx("DeleteBlock") = {}
            /\ Len(pageChildren) = Len(startChildren) + Len(contentBlocks)
            /\ SubSeq(pageChildren, 1, Len(startChildren)) = startChildren
            /\ BlocksOf(SubSeq(pageChildren, Len(startChildren) + 1,
                               Len(pageChildren))) = contentBlocks

C6_Witness ==
  /\ pc = "Written" /\ replaceF
  /\ Len(startChildren) >= 2 /\ Len(contentBlocks) >= 1
  /\ Len(doc) > Len(contentBlocks)

\* C7: after any non-success response from the remote service the run
\* aborts and issues no further remote call.
C7_AbortOnRemoteFailure ==
  \A i \in 1..Len(ops) : ~ops[i].ok => (i = Len(ops) /\ pc = "Failed")

\* C8 (as stated): a failed write of the hash property comes after a
\* successful content write and the run still ends in Written.
C8_HashWriteAfterContent ==
  \A w \in Idx("SetProperty") :
    ~ops[w].ok =>
      /\ \E a \in Idx("AppendChildren") : a < w /\ ops[a].ok
      /\ pc \in Terminal => pc = "Written"

\* C8 (amended): a failed write of the hash property is recoverable: it
\* comes before the content write (no listing, deletion or append precedes
\* it), it does not end the run, which goes on to the content write, and
\* the run ends in Written unless the clear or the append itself fails.
C8_HashWriteFailureRecoverable ==
  \A w \in Idx("SetProperty") :
    ~ops[w].ok =>
      /\ \A c \in ContentIdx : w < c
      /\ w = Len(ops) => pc = ContentPc(replaceF)
      /\ pc \in Terminal => pc \in {"Written", "Failed"}
      /\ pc = "Failed" => (Len(ops) \in ContentIdx /\ ~ops[Len(ops)].ok)

C8_Witness ==
  /\ pc = "Written"
  /\ \E w \in Idx("SetProperty") : ~ops[w].ok

\* C9: when a title block is extracted and the title update fails (no
\* property typed "title", or any other failure), the run aborts in Failed.
C9_TitleFailureAborts ==
  titleErr # "" => pc = "Failed"

\* C10: filterTitleBlock returns a non-nil title and the list minus its
\* first element exactly when the list is non-empty and starts with a
\* top-level heading; otherwise a nil title and the list unchanged.
C10_FilterTitle ==
  pfn = "filterTitleBlock" =>
    LET first == Len(pin) > 0 /\ pin[1].kind = "Heading1Block"
    IN  /\ first <=> pout.title # NilBlock
        /\ first => (pout.title = pin[1] /\ pout.rest = Tail(pin))
        /\ ~first => pout.rest = pin

C10_Witness ==
  /\ pfn = "filterTitleBlock" /\ pout.title # NilBlock
  /\ \E i \in 1..Len(pout.rest) : pout.rest[i].kind = "Heading1Block"


IsListItem(b) == b.kind \in {"BulletedListItemBlock", "NumberedListItemBlock"}

\* the text of all the rich-text runs of a block together is empty
CombinedTextEmpty(b) == \A i \in 1..Len(b.richText) : b.richText[i] = ""

\* the language the fixed table of the specification gives
SpecLanguage(lang) ==
  CASE lang = NilLang -> "plain text"
    [] lang = "sh" -> "shell"
    [] lang = "zsh" -> "shell"
    [] lang = "js" -> "javascript"
    [] lang = "ts" -> "typescript"
    [] lang = "py" -> "python"
    [] lang = "rb" -> "ruby"
    [] lang = "cs" -> "c#"
    [] lang = "cpp" -> "c++"
    [] lang = "yml" -> "yaml"
    [] lang = "text" -> "plain text"
    [] lang = "txt" -> "plain text"
    [] OTHER -> lang

\* a tree that breaks no rule of the validator, at any depth
RECURSIVE NoViolation(_)
NoViolation(blocks) ==
  \A i \in 1..Len(blocks) :
    /\ ~(IsListItem(blocks[i]) /\ CombinedTextEmpty(blocks[i]))
    /\ blocks[i].kind = "CodeBlock" => SpecLanguage(blocks[i].lang) = blocks[i].lang
    /\ NoViolation(blocks[i].children)

\* the blocks as values, whether they were given by value or by pointer
RECURSIVE AsValues(_)
AsValues(blocks) ==
  [i \in 1..Len(blocks) |->
     [blocks[i] EXCEPT !.ptr = FALSE, !.children = AsValues(blocks[i].children)]]

RichTexts(blocks) == [i \in 1..Len(blocks) |-> blocks[i].richText]

\* C11: validateContentBlocks drops a list item exactly when its combined
\* text over all rich-text runs is empty, and returns a tree without
\* violations unchanged.
C11_DropsExactlyEmptyItems ==
  pfn = "validateContentBlocks" =>
    /\ RichTexts(SelectSeq(pout, IsListItem))
         = RichTexts(SelectSeq(pin, LAMBDA b : IsListItem(b) /\ ~CombinedTextEmpty(b)))
    /\ NoViolation(pin) => AsValues(pout) = AsValues(pin)

\* no empty list item and no code block without a language, at any depth
RECURSIVE TreeClean(_)
TreeClean(blocks) ==
  \A i \in 1..Len(blocks) :
    /\ ~(IsListItem(blocks[i]) /\ CombinedTextEmpty(blocks[i]))
    /\ ~(blocks[i].kind = "CodeBlock" /\ blocks[i].lang = NilLang)
    /\ TreeClean(blocks[i].children)

\* C12: every block tree handed to the children append holds, at every
\* depth, no empty list item and no code block with an unset language.
C12_AppendedTreeClean ==
  Idx("AppendChildren") # {} => TreeClean(contentBlocks)

\* the code blocks of a list, in order
CodeBlocksOf(blocks) == SelectSeq(blocks, LAMBDA b : b.kind = "CodeBlock")

\* C13: after validation a code block without a language has "plain text",
\* one whose language is a key of the fixed table has the table's value,
\* any other keeps its language; by value or by pointer alike.
C13_CodeLanguage ==
  pfn = "validateContentBlocks" =>
    LET ins == CodeBlocksOf(pin)
        outs == CodeBlocksOf(pout)
    IN  /\ Len(outs) = Len(ins)
        /\ \A i \in 1..Len(ins) :
             /\ outs[i].lang = SpecLanguage(ins[i].lang)
             /\ outs[i].richText = ins[i].richText

C13_Witness ==
  /\ pfn = "validateContentBlocks"
  /\ Len(pin) = 1 /\ pin[1].kind = "CodeBlock" /\ pin[1].ptr
  /\ pin[1].lang = "cpp" /\ pout[1].lang = "c++"


\* C19: the hash-then-write order is not crash-safe: once a run with
\* hashing enabled has written the new hash and then failed in the clear or
\* the append, a following run on the same source that reads the hash ends
\* in Skipped and never touches the children, which stay as the failed run
\* left them.
C19_FailedWriteNeverRepaired ==
  (runNo = 2 /\ useHash /\ prev.outcome = "Failed" /\ prev.hashWritten)
    => /\ pageChildren = prev.children
       /\ ContentIdx = {} /\ Idx("SetProperty") = {}
       /\ pc # "Written"
       /\ (\E r \in Idx("GetProperty") : ops[r].ok) => pc = "Skipped"

\* a second run is Skipped on a page whose children are not the content of
\* the source
C19_Witness ==
  /\ runNo = 2 /\ useHash /\ replaceF
  /\ prev.outcome = "Failed" /\ prev.hashWritten
  /\ pc = "Skipped"
  /\ BlocksOf(pageChildren) # filterTitleBlock(validateContentBlocks(doc)).rest

\* the listing calls of the run, in order
ListCalls == SelectSeq(ops, LAMBDA o : o.op = "ListChildren")

\* C20: clearPageContent drains the paginated listing: it follows the cursor
\* from the start, deletes every listed block, stops at the first listing or
\* deletion error, and the append starts only after it succeeded, when the
\* page has no children left.
C20_ClearDrains ==
  replaceF =>
    /\ \A i \in Idx("ListChildren") \cup Idx("DeleteBlock") :
         ~ops[i].ok => (i = Len(ops) /\ pc = "Failed")
    /\ Len(ListCalls) > 0 => ListCalls[1].arg = 0
    /\ \A k \in 2..Len(ListCalls) : ListCalls[k].arg # 0
    /\ pc = "ClearDelete" =>
         \A k \in 1..Len(resp.results) :
           \E c \in 1..Len(pageChildren) : pageChildren[c].id = resp.results[k]
    /\ (pc \in {"Append", "Written"} \/ Idx("AppendChildren") # {}) =>
         /\ \A i \in Idx("ListChildren") \cup Idx("DeleteBlock") : ops[i].ok
         /\ \A k \in 1..Len(startChildren) :
              \E d \in Idx("DeleteBlock") : ops[d].arg = startChildren[k].id
         /\ Cardinality(Idx("DeleteBlock")) = Len(startChildren)
    /\ pc = "Append" => pageChildren = <<>>

C20_Witness ==
  /\ replaceF /\ pc = "Append" /\ pageChildren = <<>>
  /\ Len(ListCalls) >= 2 /\ Len(startChildren) >= 2


\* the contents that applying a page map can give, over the iteration orders
RewriteOutcomes(content, pageMap) ==
  {rewriteTextMap(content, o) : o \in IterationOrders(pageMap)}

\* C18: for a multi-page mapping rewriteContent applies the page map of some
\* key that is a substring of the document path whenever there is such a
\* key (the empty key included), and returns the input unchanged without
\* error exactly when no key is a substring of the path.
C18_MultiPageKeyMatch ==
  (pfn = "rewriteContent" /\ pin.data.shape = "multi") =>
    LET M == {k \in DOMAIN pin.data.multi : Contains(pin.path, k)}
    IN  /\ pout.err = ""
        /\ M # {} =>
             /\ pout.rewrote
             /\ \E k \in M : pout.content \in RewriteOutcomes(pin.content, pin.data.multi[k])
        /\ ~pout.rewrote <=> M = {}
        /\ ~pout.rewrote => pout.content = pin.content


\* the image references of a text, taken from its pieces from the left
RECURSIVE ImagePieces(_)
ImagePieces(content) ==
  IF content = <<>> THEN <<>>
  ELSE (IF content[1].syn \in {"md", "html"} THEN <<content[1]>> ELSE <<>>)
       \o ImagePieces(Tail(content))

\* C14: for a text with N well-formed image references, inline or tag,
\* FindImageReferences returns exactly N references in the order of their
\* occurrence in the text, each local exactly when its path does not begin
\* with http:// or https://.
C14_ReferencesInSourceOrder ==
  pfn = "FindImageReferences" =>
    LET pieces == ImagePieces(pin)
    IN  /\ Len(pout) = Len(pieces)
        /\ \A i \in 1..Len(pieces) :
             /\ pout[i].Path.prefix = pieces[i].path.prefix
             /\ pout[i].Path.base = pieces[i].path.base
             /\ pout[i].IsLocal <=> pieces[i].path.prefix \notin {"http://", "https://"}


\* the image block that the claims expect for a reference of the text
ExpectedImage(piece) ==
  LET path == parseImagePath(piece.path).path
  IN  IF path.prefix \in {"http://", "https://"}
      THEN [type |-> "external", url |-> PathString(path), fileUploadID |-> ""]
      ELSE [type |-> "file_upload", url |-> "",
            fileUploadID |-> UploadID(ImagePath(path))]

\* C15: ProcessImageBlocks replaces every paragraph whose text holds an
\* image reference by one image block built from the reference that occurs
\* first in the text, leaves the other blocks unchanged, and keeps order
\* and length.
C15_FirstReferenceReplaces ==
  (pfn = "ProcessImageBlocks" /\ pout.done /\ pout.err = "") =>
    /\ Len(pout.result) = Len(pin.blocks)
    /\ \A i \in 1..Len(pin.blocks) :
         LET block == pin.blocks[i]
             pieces == ImagePieces(FullText(block.richText))
         IN  IF block.kind = "ParagraphBlock" /\ pieces # <<>>
             THEN /\ pout.result[i].kind = "ImageBlock"
                  /\ pout.result[i].image = ExpectedImage(pieces[1])
             ELSE pout.result[i] = block

\* C16: every run passes through the image processing between conversion
\* and validation: in a run that reaches Written the block list sent to the
\* page holds no paragraph whose text has an image reference.
C16_NoImageParagraphSent ==
  pc = "Written" =>
    \A i \in 1..Len(contentBlocks) :
      contentBlocks[i].kind = "ParagraphBlock" =>
        ImagePieces(FullText(contentBlocks[i].richText)) = <<>>

\* C17: UploadFile is called only for a local reference whose resolved file
\* exists; a local reference whose file is missing ends the processing with
\* the error "local image file not found", no blocks and no upload; a
\* remote reference gives an external image block without upload.
C17_UploadOnlyExistingLocal ==
  [][ (pfn = "ProcessImageBlocks" /\ ~pout.done /\ pout.i <= Len(pin.blocks)
       /\ IsParagraphPointer(pin.blocks[pout.i])
       /\ FindImageReferences(FullText(pin.blocks[pout.i].richText)) # <<>>) =>
      LET ref == FindImageReferences(FullText(pin.blocks[pout.i].richText))[1]
          imagePath == ImagePath(ref.Path)
      IN  /\ pout'.uploads # pout.uploads =>
               /\ ref.IsLocal /\ Stat(pin.fs, imagePath) = "file"
               /\ pout'.uploads = Append(pout.uploads, imagePath)
          /\ (ref.IsLocal /\ Stat(pin.fs, imagePath) # "file") =>
               /\ pout'.err = "local image file not found: " \o imagePath
               /\ pout'.result = <<>> /\ pout'.done
               /\ pout'.uploads = pout.uploads
          /\ ~ref.IsLocal =>
               /\ pout'.uploads = pout.uploads /\ pout'.err = ""
               /\ pout'.result =
                    Append(pout.result,
                           createImageBlockFromURL(PathString(ref.Path), ref.AltText,
                                                   ref.Width, ref.Height))
    ]_vars


\* C21: validateContentBlocks is pure: after the call every block of the
\* input list reads as before, the language of each input code block and
\* the children of each input list item included.
C21_ValidateLeavesInput ==
  pfn = "validateContentBlocks" => pmem = pin


\* the block list that the title split of the run receives
SplitInput == validateContentBlocks(doc)
StartsWithHeading1(blocks) == Len(blocks) > 0 /\ IsHeading1Value(blocks[1])

====
